---- MODULE Spec2Model ----
(***************************************************************************)
(* Model of the UploadWizard component (document intake orchestrator).     *)
(*                                                                         *)
(* The component keeps three maps over the two slot keys: uploadStatus,    *)
(* parsedData and errors.  handleFileUpload is an async function: every    *)
(* piece of it between two awaits runs atomically on the single JavaScript *)
(* thread and is one action here.  An invocation reads parsedData from the *)
(* closure of the render it was called through (useCallback dependencies), *)
(* that is the parsedData at the time of the call, not the live state.     *)
(*                                                                         *)
(* currentStep, and the timer handleFileUpload sets to advance it, select  *)
(* the highlighted slot only; nothing modelled here reads them and they    *)
(* are left out.  onPartialData and onComplete are taken to be provided.   *)
(***************************************************************************)
EXTENDS Integers, Sequences, FiniteSets, TLC

\* ------------------------------------------------------------------ bounds
MaxInFlight == 2          \* invocations of handleFileUpload awaiting at once
MaxParses == 3            \* parseReport results delivered in one session

\* --------------------------------------------------------------- constants
MinTextLen == 100         \* extraction floor, fullText.length < 100

STEPS ==
  << [id |-> 1, key |-> "asset_allocation", title |-> "Asset Allocation Report",
      expectedType |-> "asset_allocation"],
     [id |-> 2, key |-> "performance", title |-> "Performance Report",
      expectedType |-> "performance"] >>

Slots == { STEPS[i].key : i \in 1..Len(STEPS) }

\* STEPS.find(s => s.key === stepKey)
StepOf(stepKey) == STEPS[CHOOSE i \in 1..Len(STEPS) : STEPS[i].key = stepKey]

\* ------------------------------------------------------------------ values
NoData  == 0              \* parsedData[k] === null
NoError == << >>          \* errors[k] === null
Absent  == -1             \* extractedPdf.fullText is undefined

Payloads == {1, 2}        \* the objects parseReport can return as parsed.data

InitialStatus == "idle"

\* the value handleReset writes into uploadStatus[stepKey]
ResetStatus == "null"

ExtractionFailureMsg ==
  << "Could not extract text from PDF. The file may be image-based or corrupted." >>
ExtractRejectMsg  == << "extractTextFromPDF rejected" >>
ParseRejectMsg    == << "parseReport rejected" >>
CallbackThrowMsg  == << "callback threw" >>
SelectionErrors   == { << "Invalid file type" >> }

\* the template string of the type-mismatch error, piece by piece
MismatchMsg(actualName, expectedName) ==
  << "This appears to be a ", actualName, ". Please upload a ", expectedName,
     " for this step." >>

\* identifyReportType results: absent, type null, or one of the two reports
IdentAbsent == [present |-> FALSE, type |-> "null", name |-> "null"]
IdentNull   == [present |-> TRUE,  type |-> "null", name |-> "null"]
IdentOf(i)  == [present |-> TRUE,  type |-> STEPS[i].expectedType,
                name |-> STEPS[i].title]

\* What extractTextFromPDF and identifyReportType make of a file: a rejection,
\* a result without fullText, or a text of 99 or 100 characters together with
\* what identifyReportType says of that text.
NoResult == [ext |-> "none", len |-> Absent, ident |-> IdentAbsent]
ExtractResults ==
  { [ext |-> "reject", len |-> Absent, ident |-> IdentAbsent],
    [ext |-> "ok", len |-> Absent, ident |-> IdentAbsent] }
  \cup { [ext |-> "ok", len |-> n, ident |-> i] :
           n \in {MinTextLen - 1, MinTextLen},
           i \in {IdentAbsent, IdentNull} \cup { IdentOf(j) : j \in 1..Len(STEPS) } }

\* What parseReport makes of it: a rejection or { data }
ParseResults ==
  { [ok |-> FALSE, data |-> NoData] } \cup { [ok |-> TRUE, data |-> d] : d \in Payloads }

CallOrder == << "extract", "identify", "validate", "parse" >>

NoAttempt ==
  [pc |-> "none", slot |-> "asset_allocation", snap |-> [k \in Slots |-> NoData],
   res |-> NoResult, calls |-> << >>, superseded |-> FALSE, result |-> "none"]

\* The first three variables are the component's state, att is the set of
\* suspended calls; the others record what has happened and are read by the
\* properties only.
VARIABLES
  uploadStatus,   \* useState uploadStatus
  parsedData,     \* useState parsedData
  errors,         \* useState errors
  att,            \* the awaiting invocations of handleFileUpload, oldest first
  done,           \* the invocation that returned in the last step, if any
  emitted,        \* notifications emitted by the last step, in order
  nPartial,       \* number of onPartialData calls so far
  nComplete,      \* number of onComplete calls so far
  completed,      \* argument of the latest onComplete call
  latest,         \* per slot: data of its latest successful parse still standing
  clean           \* only successful, non-overlapping uploads happened so far

vars == << uploadStatus, parsedData, errors, att, done,
           emitted, nPartial, nComplete, completed, latest, clean >>

Init ==
  /\ uploadStatus = [k \in Slots |-> InitialStatus]
  /\ parsedData = [k \in Slots |-> NoData]
  /\ errors = [k \in Slots |-> NoError]
  /\ att = << >>
  /\ done = NoAttempt
  /\ emitted = << >>
  /\ nPartial = 0
  /\ nComplete = 0
  /\ completed = [k \in Slots |-> NoData]
  /\ latest = [k \in Slots |-> NoData]
  /\ clean = TRUE

\* ---------------------------------------------------------------- helpers
RemoveAt(s, i) == SubSeq(s, 1, i - 1) \o SubSeq(s, i + 1, Len(s))

\* variant with the floor one character too high
InsufficientTextInclusive(len) == len = Absent \/ len = 0 \/ len <= MinTextLen
\* variant with the floor one character too low
InsufficientTextOffByOne(len) == len = Absent \/ len = 0 \/ len < MinTextLen - 1
\* !extractedPdf.fullText || extractedPdf.fullText.length < 100
InsufficientText(len) == len = Absent \/ len = 0 \/ len < MinTextLen

\* variant that accepts any identified report type
TypeMatchesAnyKnown(ident, stepKey) ==
  ident.present /\ ident.type # "null"
\* identification?.type !== step.expectedType, negated
TypeMatches(ident, stepKey) ==
  ident.present /\ ident.type = StepOf(stepKey).expectedType

\* variant that never names the detected report
ActualNameUnknown(ident) == "Unknown report type"
\* identification?.name || 'Unknown report type'
ActualName(ident) ==
  IF ident.present /\ ident.name # "null" THEN ident.name ELSE "Unknown report type"

\* variant that notifies the first completion only
CompleteCondOnce(stepKey, newParsedData) ==
  /\ nComplete = 0
  /\ \/ stepKey = "performance" /\ newParsedData["asset_allocation"] # NoData
     \/ stepKey = "asset_allocation" /\ newParsedData["performance"] # NoData
\* variant with the first branch only
CompleteCondPerformanceOnly(stepKey, newParsedData) ==
  stepKey = "performance" /\ newParsedData["asset_allocation"] # NoData
\* the two branches that decide whether onComplete is called
CompleteCond(stepKey, newParsedData) ==
  \/ stepKey = "performance" /\ newParsedData["asset_allocation"] # NoData
  \/ stepKey = "asset_allocation" /\ newParsedData["performance"] # NoData

\* const isComplete = parsedData.asset_allocation && parsedData.performance
isComplete == parsedData["asset_allocation"] # NoData /\ parsedData["performance"] # NoData

\* the N of the header's "N of 2 uploaded", rendered when isComplete is false
ProgressCount == IF uploadStatus["asset_allocation"] = "success" THEN 1 ELSE 0

\* variant that notifies without the slot's key
PartialEvNoKey(k, d) == [ev |-> "onPartialData", key |-> "all",
                         data |-> [s \in Slots |-> IF s = k THEN d ELSE NoData]]
\* onPartialData(stepKey, parsed.data)
PartialEv(k, d) == [ev |-> "onPartialData", key |-> k,
                    data |-> [s \in Slots |-> IF s = k THEN d ELSE NoData]]
CompleteEv(pd)  == [ev |-> "onComplete", key |-> "all", data |-> pd]

\* variant that marks the slot without recording the message
CatchWithoutMessage(i, msg) ==
  /\ errors' = errors
  /\ uploadStatus' = [uploadStatus EXCEPT ![att[i].slot] = "error"]
  /\ latest' = [latest EXCEPT ![att[i].slot] = NoData]
  /\ clean' = FALSE

\* variant that records the message and leaves the status as it is
CatchKeepsStatus(i, msg) ==
  /\ errors' = [errors EXCEPT ![att[i].slot] = msg]
  /\ uploadStatus' = uploadStatus
  /\ latest' = [latest EXCEPT ![att[i].slot] = NoData]
  /\ clean' = FALSE

\* variant that puts every slot in error
CatchAbortsSession(i, msg) ==
  /\ errors' = [errors EXCEPT ![att[i].slot] = msg]
  /\ uploadStatus' = [k \in Slots |-> "error"]
  /\ latest' = [latest EXCEPT ![att[i].slot] = NoData]
  /\ clean' = FALSE

\* variant that reports the completion before the slot's data
NotificationsCompleteFirst(k, d, newParsedData, complete) ==
  (IF complete THEN << CompleteEv(newParsedData) >> ELSE << >>) \o << PartialEv(k, d) >>
\* the callbacks called after a successful parse, in the order of the calls
Notifications(k, d, newParsedData, complete) ==
  << PartialEv(k, d) >> \o (IF complete THEN << CompleteEv(newParsedData) >> ELSE << >>)

\* variant that reports a fixed text instead of the exception's message
CatchGenericMessage(i, msg) ==
  /\ errors' = [errors EXCEPT ![att[i].slot] = << "Upload failed" >>]
  /\ uploadStatus' = [uploadStatus EXCEPT ![att[i].slot] = "error"]
  /\ latest' = [latest EXCEPT ![att[i].slot] = NoData]
  /\ clean' = FALSE

\* the catch block: setErrors, setUploadStatus 'error'
Catch(i, msg) ==
  /\ errors' = [errors EXCEPT ![att[i].slot] = msg]
  /\ uploadStatus' = [uploadStatus EXCEPT ![att[i].slot] = "error"]
  /\ latest' = [latest EXCEPT ![att[i].slot] = NoData]
  /\ clean' = FALSE

\* a later call for slot k marks the awaiting invocations for k (bookkeeping
\* of the model only: the code keeps no such mark)
Supersede(k) ==
  [j \in 1..Len(att) |->
     IF att[j].slot = k THEN [att[j] EXCEPT !.superseded = TRUE] ELSE att[j]]

\* the invocation returns; its snapshot is not read again
Return(i, res, calls, result) ==
  /\ att' = RemoveAt(att, i)
  /\ done' = [NoAttempt EXCEPT !.pc = "done", !.slot = att[i].slot,
                               !.snap = IF result = "returned" THEN att[i].snap
                                        ELSE NoAttempt.snap,
                               !.res = res, !.calls = calls,
                               !.superseded = att[i].superseded,
                               !.result = result]

\* ---------------------------------------------------------------- actions
\* variant that replaces the message by the extraction-failure text
SelectionErrorOwnMessage(k, e) ==
  /\ errors' = [errors EXCEPT ![k] = ExtractionFailureMsg]
  /\ uploadStatus' = [uploadStatus EXCEPT ![k] = "error"]
  /\ emitted' = << >>
  /\ done' = NoAttempt
  /\ latest' = [latest EXCEPT ![k] = NoData]
  /\ clean' = FALSE
  /\ UNCHANGED << parsedData, att, nPartial, nComplete,
                  completed >>

\* handleFileUpload(file, error, stepKey) with error set
SelectionError(k, e) ==
  /\ errors' = [errors EXCEPT ![k] = e]
  /\ uploadStatus' = [uploadStatus EXCEPT ![k] = "error"]
  /\ emitted' = << >>
  /\ done' = NoAttempt
  /\ latest' = [latest EXCEPT ![k] = NoData]
  /\ clean' = FALSE
  /\ UNCHANGED << parsedData, att, nPartial, nComplete,
                  completed >>

\* variant that clears the slot's error on an empty event
NullFileClearsError(k) ==
  /\ errors' = [errors EXCEPT ![k] = NoError]
  /\ emitted' = << >>
  /\ done' = NoAttempt
  /\ UNCHANGED << uploadStatus, parsedData, att,
                  nPartial, nComplete, completed, latest, clean >>

\* handleFileUpload(null, null, stepKey)
NullFile(k) ==
  /\ emitted' = << >>
  /\ done' = NoAttempt
  /\ UNCHANGED << uploadStatus, parsedData, errors, att,
                  nPartial, nComplete, completed, latest, clean >>

\* handleFileUpload(file, null, stepKey) up to the first await
StartUpload(k) ==
  /\ Len(att) < MaxInFlight
  /\ nPartial + Len(att) < MaxParses
  /\ uploadStatus' = [uploadStatus EXCEPT ![k] = "processing"]
  /\ errors' = [errors EXCEPT ![k] = NoError]
  /\ att' = Append(Supersede(k),
                   [pc |-> "extracting", slot |-> k, snap |-> parsedData,
                    res |-> NoResult, calls |-> << "extract" >>,
                    superseded |-> FALSE, result |-> "none"])
  /\ clean' = (clean /\ att = << >>)
  /\ emitted' = << >>
  /\ done' = NoAttempt
  /\ latest' = [latest EXCEPT ![k] = NoData]
  /\ UNCHANGED << parsedData, nPartial, nComplete, completed >>

\* extractTextFromPDF settles with res: the length check, identification, the
\* type check, and the call of parseReport
ExtractDone(i, res) ==
  /\ i \in 1..Len(att)
  /\ att[i].pc = "extracting"
  /\ emitted' = << >>
  /\ UNCHANGED << parsedData, nPartial, nComplete, completed >>
  /\ LET k == att[i].slot IN
     IF res.ext = "reject" THEN
       Catch(i, ExtractRejectMsg) /\ Return(i, res, att[i].calls, "caught")
     ELSE IF InsufficientText(res.len) THEN
       Catch(i, ExtractionFailureMsg) /\ Return(i, res, att[i].calls, "caught")
     ELSE IF ~ TypeMatches(res.ident, k) THEN
       /\ Catch(i, MismatchMsg(ActualName(res.ident), StepOf(k).title))
       /\ Return(i, res, att[i].calls \o << "identify", "validate" >>, "caught")
     ELSE
       /\ att' = [att EXCEPT ![i].pc = "parsing", ![i].res = res,
                             ![i].calls = @ \o << "identify", "validate", "parse" >>]
       /\ done' = NoAttempt
       /\ UNCHANGED << uploadStatus, errors, latest, clean >>

\* parseReport settles with out: the success path with both notifications, or
\* the catch; partialThrows and completeThrows say whether a callback throws
ParseDone(i, out, partialThrows, completeThrows) ==
  /\ i \in 1..Len(att)
  /\ att[i].pc = "parsing"
  /\ LET k == att[i].slot
         newParsedData == [att[i].snap EXCEPT ![k] = out.data]
         complete == CompleteCond(k, newParsedData)
     IN
     IF ~ out.ok THEN
       /\ Catch(i, ParseRejectMsg)
       /\ Return(i, att[i].res, att[i].calls, "caught")
       /\ emitted' = << >>
       /\ UNCHANGED << parsedData, nPartial, nComplete, completed >>
     ELSE
       /\ parsedData' = newParsedData
       /\ nPartial' = nPartial + 1
       /\ IF partialThrows THEN
            /\ Catch(i, CallbackThrowMsg)
            /\ Return(i, att[i].res, att[i].calls, "caught")
            /\ emitted' = << PartialEv(k, out.data) >>
            /\ UNCHANGED << nComplete, completed >>
          ELSE
            /\ emitted' = Notifications(k, out.data, newParsedData, complete)
            /\ nComplete' = IF complete THEN nComplete + 1 ELSE nComplete
            /\ completed' = IF complete THEN newParsedData ELSE completed
            /\ IF complete /\ completeThrows THEN
                 /\ Catch(i, CallbackThrowMsg)
                 /\ Return(i, att[i].res, att[i].calls, "caught")
               ELSE
                 /\ Return(i, att[i].res, att[i].calls, "returned")
                 /\ uploadStatus' = [uploadStatus EXCEPT ![k] = "success"]
                 /\ latest' = [latest EXCEPT ![k] = out.data]
                 /\ UNCHANGED << errors, clean >>

\* handleReset(stepKey)
Reset(k) ==
  /\ parsedData' = [parsedData EXCEPT ![k] = NoData]
  /\ uploadStatus' = [uploadStatus EXCEPT ![k] = ResetStatus]
  /\ errors' = [errors EXCEPT ![k] = NoError]
  /\ emitted' = << >>
  /\ done' = NoAttempt
  /\ latest' = [latest EXCEPT ![k] = NoData]
  /\ clean' = FALSE
  /\ UNCHANGED << att, nPartial, nComplete, completed >>

\* handleFileUpload called through the rendered UploadSlot
Upload ==
  \/ \E k \in Slots, e \in SelectionErrors : SelectionError(k, e)
  \/ \E k \in Slots : NullFile(k)
  \/ \E k \in Slots : StartUpload(k)

\* a collaborator settles and the awaiting invocation goes on; the callbacks
\* handed to the component return normally
Settle ==
  \/ \E i \in 1..MaxInFlight, res \in ExtractResults : ExtractDone(i, res)
  \/ \E i \in 1..MaxInFlight, out \in ParseResults : ParseDone(i, out, FALSE, FALSE)

\* the same with callbacks that may throw
SettleThrowing ==
  \/ \E i \in 1..MaxInFlight, res \in ExtractResults : ExtractDone(i, res)
  \/ \E i \in 1..MaxInFlight, out \in ParseResults, pt \in BOOLEAN, ct \in BOOLEAN :
       ParseDone(i, out, pt, ct)

Next ==
  \/ Upload
  \/ Settle
  \/ \E k \in Slots : Reset(k)

Spec == Init /\ [][Next]_vars

NextThrowing ==
  \/ Upload
  \/ SettleThrowing
  \/ \E k \in Slots : Reset(k)

SpecThrowing == Init /\ [][NextThrowing]_vars

\* the collaborator call awaited by the i-th invocation settles
SettleAt(i) ==
  \/ \E res \in ExtractResults : ExtractDone(i, res)
  \/ \E out \in ParseResults : ParseDone(i, out, FALSE, FALSE)

\* every awaited collaborator call eventually resolves or rejects
SpecLive == Init /\ [][Next]_vars /\ \A i \in 1..MaxInFlight : WF_vars(SettleAt(i))

TypeOK ==
  /\ uploadStatus \in [Slots -> {"idle", "processing", "success", "error", "null"}]
  /\ parsedData \in [Slots -> {NoData} \cup Payloads]
  /\ Len(att) <= MaxInFlight
  /\ nPartial <= MaxParses

\* ----------------------------------------------------------------- claims
Range(s) == { s[j] : j \in 1..Len(s) }
IsPrefix(s, t) == Len(s) <= Len(t) /\ SubSeq(t, 1, Len(s)) = s
OnCompleteCalls(evs) == { j \in 1..Len(evs) : evs[j].ev = "onComplete" }
AllSuccess == \A k \in Slots : uploadStatus[k] = "success"

\* C1: no slot ever has both its parsedData and its lastError set.
C1_MutuallyExclusive ==
  \A k \in Slots : ~ (parsedData[k] # NoData /\ errors[k] # NoError)

\* C2: a call with a file and no selection error puts the slot in processing
\* and clears both its parsedData and its lastError in that same step.
C2_SubmitClearsSlot ==
  [][\A k \in Slots :
       (Len(att') = Len(att) + 1 /\ att'[Len(att')].slot = k)
         => /\ uploadStatus'[k] = "processing"
            /\ parsedData'[k] = NoData
            /\ errors'[k] = NoError]_vars

\* C3: parsedData is present only in status success, lastError only in
\* status error.
C3_PresentOnlyInStatus ==
  \A k \in Slots :
    /\ parsedData[k] # NoData => uploadStatus[k] = "success"
    /\ errors[k] # NoError => uploadStatus[k] = "error"

\* C4: every slot's status is always one of idle, processing, success, error.
C4_StatusDomain ==
  \A k \in Slots : uploadStatus[k] \in {"idle", "processing", "success", "error"}

\* C5: the isComplete flag is true exactly when every slot's status is success.
C5_IsCompleteIffAllSuccess == isComplete <=> AllSuccess

\* C6: a step calls onComplete exactly when the session was not complete
\* (every slot in success) before the step and is complete after it, and then
\* calls it once.
C6_OnCompleteIffBecameComplete ==
  [][/\ Cardinality(OnCompleteCalls(emitted')) <= 1
     /\ OnCompleteCalls(emitted') # {} <=> (~ AllSuccess /\ AllSuccess')]_vars

\* C7: when onComplete is called, every other slot has status success, and
\* the mapping holds for the slot just parsed the payload just announced by
\* onPartialData and for every other slot the payload of its latest successful
\* parse, none since replaced, failed or reset.
C7_OnCompleteFreshPayloads ==
  \A j \in OnCompleteCalls(emitted) :
    LET k == emitted[1].key IN
    /\ emitted[j].data[k] = emitted[1].data[k]
    /\ \A o \in Slots \ {k} :
         /\ uploadStatus[o] = "success"
         /\ latest[o] # NoData
         /\ emitted[j].data[o] = latest[o]

\* C8: from a fresh session, two successful uploads, one per slot and one
\* after the other, leave in either order both slots in success, two
\* onPartialData calls, one onComplete call, and its mapping holds both parsed
\* payloads.
C8_SequentialEitherOrder ==
  (clean /\ att = << >> /\ nPartial = 2 /\ \A k \in Slots : latest[k] # NoData)
    => /\ AllSuccess
       /\ nComplete = 1
       /\ completed = latest
       /\ parsedData = latest

\* C8 witness: the scenario has run with performance first, asset_allocation last
C8_Witness ==
  /\ clean /\ att = << >> /\ nPartial = 2 /\ \A k \in Slots : latest[k] # NoData
  /\ done.pc = "done" /\ done.slot = "asset_allocation"
  /\ latest["asset_allocation"] # latest["performance"]

\* C9: when an invocation returns while a later invocation for the same slot
\* has started, it changes neither status, parsedData nor lastError of the slot
\* and emits nothing.
C9_StaleResultDiscarded ==
  [][\A i \in 1..Len(att) :
       (att' = RemoveAt(att, i) /\ att[i].superseded)
         => LET k == att[i].slot IN
            /\ uploadStatus'[k] = uploadStatus[k]
            /\ parsedData'[k] = parsedData[k]
            /\ errors'[k] = errors[k]
            /\ emitted' = << >>]_vars

\* C10: the calls of an attempt are made in the order extract, identify,
\* validate, parse, and parse is only called after an extraction that
\* returned at least 100 characters identified as the slot's expected type.
C10_ParseOnlyAfterGate ==
  \A r \in Range(att) \cup {done} :
    r.pc # "none" =>
      /\ IsPrefix(r.calls, CallOrder)
      /\ "parse" \in Range(r.calls) =>
           /\ r.res.ext = "ok"
           /\ r.res.len >= MinTextLen
           /\ r.res.ident.present
           /\ r.res.ident.type = StepOf(r.slot).expectedType

\* C10 witness: a misidentified document was turned away before the parser
C10_Witness ==
  /\ done.pc = "done"
  /\ done.res.ext = "ok" /\ done.res.len >= MinTextLen
  /\ done.res.ident.type # StepOf(done.slot).expectedType
  /\ done.calls = << "extract", "identify", "validate" >>
  /\ uploadStatus[done.slot] = "error"

\* C11: the type check lets an attempt through to the parser exactly when the
\* identification result is present and its type is the slot's expectedType;
\* an absent result, a null type and the other slot's type are turned away.
C11_GateAcceptsIffExpectedType ==
  \A r \in Range(att) \cup {done} :
    "validate" \in Range(r.calls) =>
      /\ "parse" \in Range(r.calls)
           <=> (r.res.ident.present /\ r.res.ident.type = StepOf(r.slot).expectedType)
      /\ r.res.ident \in {IdentAbsent, IdentNull} => "parse" \notin Range(r.calls)
      /\ (\E o \in Slots \ {r.slot} : r.res.ident.type = StepOf(o).expectedType)
           => "parse" \notin Range(r.calls)

\* C11 witness: a Performance Report was turned away by slot asset_allocation
C11_Witness ==
  /\ done.pc = "done" /\ done.slot = "asset_allocation"
  /\ done.res.ident = IdentOf(2)
  /\ "validate" \in Range(done.calls) /\ "parse" \notin Range(done.calls)

\* C12: when extraction gave at least 100 characters, the identified type is
\* the slot's expectedType and parseReport resolves, the step that delivers the
\* parser's output leaves the slot in success, with parsedData equal to that
\* output and with no lastError.
C12_ValidFileEndsInSuccess ==
  [][\A i \in 1..MaxInFlight, out \in ParseResults :
       (out.ok /\ ParseDone(i, out, FALSE, FALSE))
         => /\ att[i].res.len >= MinTextLen
            /\ att[i].res.ident.type = StepOf(att[i].slot).expectedType
            /\ uploadStatus'[att[i].slot] = "success"
            /\ parsedData'[att[i].slot] = out.data
            /\ errors'[att[i].slot] = NoError]_vars

PartialEvents(evs) == { j \in 1..Len(evs) : evs[j].ev = "onPartialData" }

C14_SelectionErrorDirectlyToError ==
  [][\A k \in Slots, e \in SelectionErrors :
       SelectionError(k, e)
         => /\ uploadStatus'[k] = "error"
            /\ errors'[k] = e
            /\ att' = att
            /\ emitted' = << >>
            /\ nPartial' = nPartial /\ nComplete' = nComplete]_vars

\* C14 witness: a selection error on a slot that was idle and has no invocation
C14_Witness ==
  /\ uploadStatus["asset_allocation"] = "error"
  /\ errors["asset_allocation"] \in SelectionErrors
  /\ att = << >> /\ nPartial = 0 /\ done = NoAttempt
  /\ uploadStatus["performance"] = "idle"

\* C15: a call with a null file and no selection error changes no slot's
\* status, parsedData or lastError, starts no collaborator call and notifies
\* nothing.
C15_NullFileIsNoOp ==
  [][\A k \in Slots :
       NullFile(k)
         => /\ UNCHANGED << uploadStatus, parsedData, errors, att >>
            /\ emitted' = << >>
            /\ nPartial' = nPartial /\ nComplete' = nComplete]_vars

\* C15 witness: a null-file call was made after a successful upload and the
\* slot still holds its data
C15_Witness ==
  /\ uploadStatus["asset_allocation"] = "success"
  /\ parsedData["asset_allocation"] # NoData
  /\ uploadStatus["performance"] = "idle"
  /\ att = << >> /\ done = NoAttempt /\ emitted = << >>

\* C16: an extraction that returns no text, or fewer than 100 characters (99
\* for one), ends the attempt in error with the extraction-failure message and
\* identifyReportType is not called; with exactly 100 characters
\* identifyReportType is called.
C16_ExtractionFloor ==
  /\ (done.pc = "done" /\ done.res.ext = "ok"
        /\ (done.res.len = Absent \/ done.res.len < 100))
       => /\ done.calls = << "extract" >>
          /\ "identify" \notin Range(done.calls)
          /\ done.result = "caught"
          /\ uploadStatus[done.slot] = "error"
          /\ errors[done.slot] = ExtractionFailureMsg
  /\ \A r \in Range(att) \cup {done} :
       (r.res.ext = "ok" /\ r.res.len = 100) => "identify" \in Range(r.calls)

\* C16 witness: 99 characters of what would have been the right report
C16_Witness ==
  /\ done.pc = "done" /\ done.res.ext = "ok" /\ done.res.len = 99
  /\ done.res.ident.type = StepOf(done.slot).expectedType
  /\ done.calls = << "extract" >>
  /\ errors[done.slot] = ExtractionFailureMsg

\* the lastError each kind of failure is reported with
FailureKindMsg(r) ==
  IF r.res.ext = "reject" THEN ExtractRejectMsg
  ELSE IF r.calls = << "extract" >> THEN ExtractionFailureMsg
  ELSE IF "parse" \notin Range(r.calls)
    THEN MismatchMsg(IF r.res.ident.name = "null" THEN "Unknown report type"
                     ELSE r.res.ident.name, StepOf(r.slot).title)
  ELSE ParseRejectMsg

\* C17: when an attempt fails (extraction rejects, too little text, type
\* mismatch, parser rejects) the handler returns normally with the slot in
\* error and a non-empty lastError that is the message of that failure.
C17_FailureEndsInErrorWithMessage ==
  /\ done.pc = "done" => done.result \in {"caught", "returned"}
  /\ done.result = "caught"
       => /\ uploadStatus[done.slot] = "error"
          /\ errors[done.slot] # NoError
          /\ \A j \in 1..Len(errors[done.slot]) : errors[done.slot][j] # ""
          /\ errors[done.slot] = FailureKindMsg(done)

\* C17 witness: the parser rejected a correctly identified document
C17_Witness ==
  /\ done.result = "caught" /\ "parse" \in Range(done.calls)
  /\ uploadStatus[done.slot] = "error" /\ errors[done.slot] = ParseRejectMsg

C19_MismatchMessageNamesBoth ==
  (/\ done.pc = "done"
   /\ "validate" \in Range(done.calls) /\ "parse" \notin Range(done.calls))
    => /\ uploadStatus[done.slot] = "error"
       /\ IF done.res.ident.present /\ done.res.ident.name # "null"
            THEN done.res.ident.name \in Range(errors[done.slot])
            ELSE "Unknown report type" \in Range(errors[done.slot])
       /\ StepOf(done.slot).title \in Range(errors[done.slot])
       /\ emitted = << >>
       /\ (done.slot = "asset_allocation" /\ done.res.ident.name = "Performance Report")
            => /\ "Performance Report" \in Range(errors[done.slot])
               /\ "Asset Allocation Report" \in Range(errors[done.slot])

\* C19 witness: a Performance Report given to asset_allocation
C19_Witness ==
  /\ done.pc = "done" /\ done.slot = "asset_allocation"
  /\ done.res.ident.name = "Performance Report"
  /\ "Performance Report" \in Range(errors["asset_allocation"])
  /\ "Asset Allocation Report" \in Range(errors["asset_allocation"])
  /\ emitted = << >> /\ nPartial = 0 /\ nComplete = 0

\* C20: handleReset on a slot leaves that slot with status idle and without
\* parsedData and lastError, and leaves the other slot as it was.
C20_ResetToIdle ==
  [][\A k \in Slots :
       Reset(k)
         => /\ uploadStatus'[k] = "idle"
            /\ parsedData'[k] = NoData
            /\ errors'[k] = NoError
            /\ \A o \in Slots \ {k} :
                 /\ uploadStatus'[o] = uploadStatus[o]
                 /\ parsedData'[o] = parsedData[o]
                 /\ errors'[o] = errors[o]]_vars


\* C21: handleReset on a slot whose status is idle leaves the component's
\* state exactly as it was, and a handleReset right after a handleReset of the
\* same slot changes nothing more.
C21_ResetIdempotent ==
  [][\A k \in Slots :
       Reset(k)
         => /\ uploadStatus[k] = "idle"
                 => UNCHANGED << uploadStatus, parsedData, errors, att >>
            /\ (uploadStatus[k] = ResetStatus /\ parsedData[k] = NoData
                  /\ errors[k] = NoError)
                 => UNCHANGED << uploadStatus, parsedData, errors, att >>]_vars


\* C22: the session was complete and onComplete was called once, slot k was
\* reset and an upload for k was then started and is the only one awaiting:
\* when its parse succeeds onComplete is called a second time, with the new
\* payload for k and the other slot's unchanged payload.
C22_ReCompletion ==
  [][\A k \in Slots, out \in ParseResults :
       (/\ out.ok /\ ParseDone(1, out, FALSE, FALSE)
        /\ Len(att) = 1 /\ att[1].slot = k
        /\ nComplete = 1
        /\ att[1].snap = parsedData /\ parsedData[k] = NoData
        /\ \A o \in Slots \ {k} :
             /\ uploadStatus[o] = "success" /\ errors[o] = NoError
             /\ parsedData[o] # NoData /\ parsedData[o] = completed[o])
         => /\ nComplete' = 2
            /\ Cardinality(OnCompleteCalls(emitted')) = 1
            /\ \E j \in OnCompleteCalls(emitted') :
                 /\ emitted'[j].data[k] = out.data
                 /\ \A o \in Slots \ {k} : emitted'[j].data[o] = parsedData[o]
            /\ \A o \in Slots \ {k} : parsedData'[o] = parsedData[o]
            /\ AllSuccess']_vars

\* C22 witness: the third successful parse of the session, started on a
\* reset slot after the first completion, has called onComplete again
C22_Witness ==
  /\ done.result = "returned" /\ done.snap[done.slot] = NoData
  /\ \A o \in Slots \ {done.slot} : done.snap[o] # NoData /\ completed[o] = done.snap[o]
  /\ nPartial = 3 /\ nComplete = 2
  /\ OnCompleteCalls(emitted) # {}
  /\ completed = parsedData /\ AllSuccess


\* C23: a slot in error is not stuck: a new upload for it starts processing
\* with the error cleared and, with valid matching content, ends in success,
\* and a handleReset brings it to idle.
C23_NoErrorIsAbsorbing ==
  [][\A k \in Slots :
       /\ (uploadStatus[k] = "error" /\ StartUpload(k))
            => uploadStatus'[k] = "processing" /\ errors'[k] = NoError
       /\ \A out \in ParseResults :
            (out.ok /\ ParseDone(1, out, FALSE, FALSE) /\ att[1].slot = k)
              => uploadStatus'[k] = "success"
       /\ (uploadStatus[k] = "error" /\ Reset(k))
            => uploadStatus'[k] = "idle"]_vars


\* C24: uploads for both slots were awaiting at the same time, the other
\* slot's has succeeded and the one for k is the last awaiting: when its parse
\* succeeds too, both slots are in success, each holds its own parser output,
\* and onComplete has been called exactly once, with both payloads.
C24_OverlappingUploadsComplete ==
  [][\A k \in Slots, out \in ParseResults :
       (/\ out.ok /\ ParseDone(1, out, FALSE, FALSE)
        /\ Len(att) = 1 /\ att[1].slot = k
        /\ nPartial = 1 /\ nComplete = 0
        /\ \A o \in Slots \ {k} :
             /\ att[1].snap[o] = NoData
             /\ uploadStatus[o] = "success" /\ parsedData[o] # NoData
             /\ parsedData[o] = latest[o])
         => /\ AllSuccess'
            /\ parsedData'[k] = out.data
            /\ \A o \in Slots \ {k} : parsedData'[o] = parsedData[o]
            /\ nComplete' = 1
            /\ \E j \in OnCompleteCalls(emitted') : emitted'[j].data = parsedData']_vars


\* the step is a step of an operation on slot k: a call of handleFileUpload or
\* handleReset for k, or the continuation of an invocation for k
StepOn(k) ==
  \/ \E e \in SelectionErrors : SelectionError(k, e)
  \/ NullFile(k)
  \/ StartUpload(k)
  \/ Reset(k)
  \/ \E i \in 1..Len(att) :
       /\ att[i].slot = k
       /\ \/ \E res \in ExtractResults : ExtractDone(i, res)
          \/ \E out \in ParseResults : ParseDone(i, out, FALSE, FALSE)

\* C25: whatever the interleaving, a step of an upload or a reset on one slot
\* (start of processing, success, failure, reset) leaves the other slot's
\* status, parsedData and lastError unchanged.
C25_SlotIndependence ==
  [][\A k \in Slots :
       StepOn(k) => \A o \in Slots \ {k} :
                      /\ uploadStatus'[o] = uploadStatus[o]
                      /\ parsedData'[o] = parsedData[o]
                      /\ errors'[o] = errors[o]]_vars


\* the step is a call of handleFileUpload or handleReset for slot k
CallOn(k) ==
  \/ \E e \in SelectionErrors : SelectionError(k, e)
  \/ NullFile(k)
  \/ StartUpload(k)
  \/ Reset(k)

\* the step makes a call to identifyReportType or parseReport for slot k
CollaboratorCallFor(k) ==
  \E i \in 1..Len(att), res \in ExtractResults :
    /\ att[i].slot = k
    /\ ExtractDone(i, res)
    /\ \/ Len(att') = Len(att) /\ Len(att'[i].calls) > Len(att[i].calls)
       \/ Len(att') < Len(att) /\ Len(done'.calls) > Len(att[i].calls)

\* C26: while a slot is in error, every step that is not a new call of
\* handleFileUpload or handleReset for that slot leaves its status and its
\* lastError unchanged and makes no collaborator call for it.
C26_NoAutomaticRetry ==
  [][\A k \in Slots :
       (uploadStatus[k] = "error" /\ ~ CallOn(k))
         => /\ uploadStatus'[k] = "error"
            /\ errors'[k] = errors[k]
            /\ ~ CollaboratorCallFor(k)]_vars

\* C27: a step that puts a slot in success finds it in processing; none takes
\* a slot from idle or from error to success.
C27_SuccessOnlyFromProcessing ==
  [][\A k \in Slots :
       (uploadStatus'[k] = "success" /\ uploadStatus[k] # "success")
         => /\ uploadStatus[k] = "processing"
            /\ uploadStatus[k] \notin {"idle", "error"}]_vars


\* C28: when every awaited collaborator call eventually resolves or rejects,
\* a slot in processing eventually is in success or in error: no slot stays in
\* processing forever.
C28_ProcessingTerminates ==
  \A k \in Slots :
    (uploadStatus[k] = "processing") ~> (uploadStatus[k] \in {"success", "error"})

\* C28 witness: both slots were processing at once; the attempt on
\* performance has ended in error by a rejected extraction and the one on
\* asset_allocation, the only one for that slot, is still awaited
C28_Witness ==
  /\ done.pc = "done" /\ done.slot = "performance" /\ ~ done.superseded
  /\ done.result = "caught" /\ done.res.ext = "reject"
  /\ uploadStatus["performance"] = "error"
  /\ Len(att) = 1 /\ att[1].slot = "asset_allocation"
  /\ uploadStatus["asset_allocation"] = "processing"


\* C29: in a step that delivers a successful parse the slot's parsedData is
\* written before onPartialData is called (it is there even when the callback
\* throws), the slot is in success when the callbacks returned, and onComplete
\* is called only after the onPartialData of that same parse, never before.
C29_OrderOfEffects ==
  [][/\ \A p \in PartialEvents(emitted') :
          /\ parsedData'[emitted'[p].key] = emitted'[p].data[emitted'[p].key]
          /\ done'.result = "returned" => uploadStatus'[emitted'[p].key] = "success"
     /\ \A j \in OnCompleteCalls(emitted') :
          /\ PartialEvents(emitted') = {1} /\ j = 2
          /\ emitted'[1].key = done'.slot
          /\ emitted'[j].data[done'.slot] = emitted'[1].data[done'.slot]
          /\ emitted'[j].data = parsedData']_vars

\* C29 witness: a successful parse that completed the session has called
\* onPartialData and then onComplete
C29_Witness ==
  /\ Len(emitted) = 2
  /\ emitted[1].ev = "onPartialData" /\ emitted[2].ev = "onComplete"
  /\ done.result = "returned" /\ emitted[1].key = done.slot
  /\ uploadStatus[done.slot] = "success"

\* C30: when onPartialData or onComplete throws, the exception is caught in
\* handleFileUpload: the invocation returns, the slot whose parse had just
\* succeeded is in error with the exception's message as lastError, and the
\* parsedData written for that parse is still set.
C30_CallbackExceptionCaught ==
  [][\A i \in 1..MaxInFlight, out \in ParseResults, pt \in BOOLEAN, ct \in BOOLEAN :
       (/\ out.ok /\ ParseDone(i, out, pt, ct)
        /\ (pt \/ (ct /\ OnCompleteCalls(emitted') # {})))
         => /\ done'.pc = "done" /\ done'.result = "caught"
            /\ Len(att') = Len(att) - 1
            /\ uploadStatus'[att[i].slot] = "error"
            /\ errors'[att[i].slot] = CallbackThrowMsg
            /\ parsedData'[att[i].slot] = out.data
            /\ out.data # NoData]_vars

\* C30 witness: onComplete threw after both slots had their data
C30_Witness ==
  /\ done.result = "caught" /\ "parse" \in Range(done.calls)
  /\ OnCompleteCalls(emitted) # {}
  /\ errors[done.slot] = CallbackThrowMsg
  /\ uploadStatus[done.slot] = "error"
  /\ parsedData[done.slot] # NoData


\* C31: whenever the session is not complete, the N of the progress label
\* "N of 2 uploaded" is the number of slots whose status is success, also when
\* performance is the only slot in success.
C31_ProgressLabelCountsSuccess ==
  ~ isComplete
    => ProgressCount = Cardinality({ k \in Slots : uploadStatus[k] = "success" })
====
